---- MODULE Spec2Model ----
(***************************************************************************)
(* A model of center_xsf.py: process_xsf reads an XSF file, locates one    *)
(* DATAGRID_3D block, re-centres its data periodically, scales it, strips  *)
(* the forces of PRIMCOORD and writes the file again.                      *)
(*                                                                         *)
(* A line of text is a sequence of tokens: its maximal runs of             *)
(* non-whitespace characters, in order, with the token " " in front when   *)
(* the line starts with whitespace (and behind, in a raw file line that    *)
(* ends with whitespace).  The widths of whitespace runs are not modelled. *)
(* A number is a rational <<n, d>> in lowest terms with d > 0; floating    *)
(* point arithmetic is modelled as exact arithmetic on these.              *)
(***************************************************************************)
EXTENDS Integers, Sequences, FiniteSets, TLC

(***************************************************************************)
(* Bounds of the model.                                                    *)
(***************************************************************************)
MaxDim == 3
MaxBlocks == 2
MaxSections == 2

(***************************************************************************)
(* Text: markers, split, strip.                                            *)
(***************************************************************************)
WS == " "

ELEMENTS ==
  << "H", "He", "Li", "Be", "B", "C", "N", "O", "F", "Ne",
     "Na", "Mg", "Al", "Si", "P", "S", "Cl", "Ar", "K", "Ca",
     "Sc", "Ti", "V", "Cr", "Mn", "Fe", "Co", "Ni", "Cu", "Zn",
     "Ga", "Ge", "As", "Se", "Br", "Kr", "Rb", "Sr", "Y", "Zr",
     "Nb", "Mo", "Tc", "Ru", "Rh", "Pd", "Ag", "Cd", "In", "Sn",
     "Sb", "Te", "I", "Xe", "Cs", "Ba", "La", "Ce", "Pr", "Nd",
     "Pm", "Sm", "Eu", "Gd", "Tb", "Dy", "Ho", "Er", "Tm", "Yb",
     "Lu", "Hf", "Ta", "W", "Re", "Os", "Ir", "Pt", "Au", "Hg",
     "Tl", "Pb", "Bi", "Po", "At", "Rn", "Fr", "Ra", "Ac", "Th",
     "Pa", "U", "Np", "Pu", "Am", "Cm", "Bk", "Cf", "Es", "Fm",
     "Md", "No", "Lr", "Rf", "Db", "Sg", "Bh", "Hs", "Mt", "Ds",
     "Rg", "Cn", "Nh", "Fl", "Mc", "Lv", "Ts", "Og" >>

\* The tokens of the model's files that contain the marker m as a substring.
\* No marker is a substring of another one.
TokensContaining(m) ==
  CASE m = "BEGIN_BLOCK_DATAGRID_3D" -> {"BEGIN_BLOCK_DATAGRID_3D"}
    [] m = "BEGIN_DATAGRID_3D" -> {"BEGIN_DATAGRID_3D", "BEGIN_DATAGRID_3D_rho"}
    [] m = "END_DATAGRID_3D" -> {"END_DATAGRID_3D"}
    [] m = "END_BLOCK_DATAGRID_3D" -> {"END_BLOCK_DATAGRID_3D"}
    [] m = "PRIMVEC" -> {"PRIMVEC"}
    [] m = "PRIMCOORD" -> {"PRIMCOORD"}
    [] OTHER -> {}

\* Python's `m in line` for a marker m: markers hold no whitespace, so a
\* marker lies in a line iff it lies in one of its tokens.
Contains(line, m) == \E k \in DOMAIN line : line[k] \in TokensContaining(m)

\* str.split(): the whitespace-delimited tokens.
Split(line) == SelectSeq(line, LAMBDA t : t # WS)

RECURSIVE LStrip(_)
LStrip(line) ==
  IF line # <<>> /\ Head(line) = WS THEN LStrip(Tail(line)) ELSE line

\* str.rstrip(): trailing whitespace removed.
RECURSIVE RStrip(_)
RStrip(line) ==
  IF line # <<>> /\ line[Len(line)] = WS
    THEN RStrip(SubSeq(line, 1, Len(line) - 1))
    ELSE line

\* str.strip()
Strip(line) == RStrip(LStrip(line))

\* line.strip().startswith(m) for a marker m
StartsWith(line, m) ==
  Strip(line) # <<>> /\ Head(Strip(line)) \in TokensContaining(m)

(***************************************************************************)
(* Numbers: int(), float(), and the two output formats.                    *)
(***************************************************************************)
IntRange == (0 - Len(ELEMENTS) - 1) .. (Len(ELEMENTS) + 1)

IntText == [n \in IntRange |-> ToString(n)]

\* int(tok) succeeds
IsInt(tok) == \E n \in IntRange : IntText[n] = tok

\* int(tok)
IntOf(tok) == CHOOSE n \in IntRange : IntText[n] = tok

\* The non-integer numerals of the model's files, with their values.
Decimals == {<<"0.0", <<0, 1>> >>, <<"0.5", <<1, 2>> >>, <<"1.5", <<3, 2>> >>}

\* float(tok) succeeds
IsFloat(tok) == IsInt(tok) \/ \E p \in Decimals : p[1] = tok

\* float(tok)
FloatOf(tok) ==
  IF IsInt(tok) THEN <<IntOf(tok), 1>>
  ELSE (CHOOSE p \in Decimals : p[1] = tok)[2]

Abs(n) == IF n < 0 THEN 0 - n ELSE n

RECURSIVE GCD(_, _)
GCD(a, b) == IF b = 0 THEN a ELSE GCD(b, a % b)

\* n/d in lowest terms, d > 0
Rat(n, d) ==
  LET g == GCD(Abs(n), Abs(d))
      s == IF d < 0 THEN 0 - 1 ELSE 1
  IN  <<(s * n) \div g, (s * d) \div g>>

RMul(a, b) == Rat(a[1] * b[1], a[2] * b[2])

RDiv(a, b) == Rat(a[1] * b[2], a[2] * b[1])

RAbs(a) == <<Abs(a[1]), a[2]>>

RLess(a, b) == a[1] * b[2] < b[1] * a[2]

\* the last k decimal digits of v, zero-padded
RECURSIVE PadDigits(_, _)
PadDigits(v, k) ==
  IF k = 0 THEN "" ELSE PadDigits(v \div 10, k - 1) \o ToString(v % 10)

\* <<m, r>>: m = floor(n/d * 10^k) and r the remainder, by long division
RECURSIVE LongDiv(_, _, _, _)
LongDiv(m, r, d, k) ==
  IF k = 0 THEN <<m, r>>
  ELSE LongDiv(m * 10 + (r * 10) \div d, (r * 10) % d, d, k - 1)

\* round half to even on the quotient m with remainder r of divisor d
RoundHalfEven(m, r, d) ==
  IF 2 * r > d \/ (2 * r = d /\ m % 2 = 1) THEN m + 1 ELSE m

\* the decimal exponent e with 10^e <= n/d < 10^(e+1), as <<n', d', e>>
\* with 1 <= n'/d' < 10 and n/d = n'/d' * 10^e  (n > 0)
RECURSIVE Normalise(_, _, _)
Normalise(n, d, e) ==
  IF n >= 10 * d THEN Normalise(n, 10 * d, e + 1)
  ELSE IF n < d THEN Normalise(10 * n, d, e - 1)
  ELSE <<n, d, e>>

ExpText(e) ==
  "E" \o (IF e < 0 THEN "-" ELSE "+") \o PadDigits(Abs(e), 2)

\* "{:.8E}".format(v)
FormatE8(v) ==
  IF v[1] = 0 THEN "0.00000000E+00"
  ELSE
    LET nm == Normalise(Abs(v[1]), v[2], 0)
        q == LongDiv(nm[1] \div nm[2], nm[1] % nm[2], nm[2], 8)
        m0 == RoundHalfEven(q[1], q[2], nm[2])
        carry == m0 = 1000000000
        m == IF carry THEN 100000000 ELSE m0
        e == IF carry THEN nm[3] + 1 ELSE nm[3]
    IN  (IF v[1] < 0 THEN "-" ELSE "") \o ToString(m \div 100000000) \o "."
          \o PadDigits(m % 100000000, 8) \o ExpText(e)

\* "{:.9f}".format(v), the text of the field "{v:>14.9f}"
FormatF9(v) ==
  LET a == Abs(v[1])
      q == LongDiv(0, a % v[2], v[2], 9)
      m0 == RoundHalfEven(q[1], q[2], v[2])
      carry == m0 = 1000000000
      ip == IF carry THEN a \div v[2] + 1 ELSE a \div v[2]
      m == IF carry THEN 0 ELSE m0
  IN  (IF v[1] < 0 THEN "-" ELSE "") \o ToString(ip) \o "." \o PadDigits(m, 9)

(***************************************************************************)
(* Optional values: <<>> is None, <<v>> is the value v.                    *)
(***************************************************************************)
None == <<>>

Some(v) == <<v>>

(***************************************************************************)
(* The state of one call of process_xsf.                                   *)
(***************************************************************************)
VARIABLES
  input_file,        \* the file at input_filename: None (no such file) or Some(raw lines)
  datagrid_name,     \* the argument: None or Some(name)
  written_dimensions, \* history: None, or Some(grid dimensions) of the call that wrote input_file
  argv,              \* sys.argv of a run as a script; <<>> when process_xsf is called directly
  usage_printed,     \* the script has printed its usage line
  exit_status,       \* None, or Some(status) once the script has called sys.exit
  scale_factor,      \* the argument, later the factor used: None or Some(number)
  pc,                \* the phase process_xsf is in
  outcome,           \* "" while running, then how the call ended
  lines, i,
  header_lines, datagrid_block_start, datagrid_header, datagrid_block_end,
  datagrid_data_str, footer_lines, grid_dimensions, target_grid_name,
  in_datagrid_block, in_target_block, found_target_grid, current_block_lines,
  data_3d, shifted_data_3d, scaled_data_flat,
  opened,            \* the output file has been opened for writing (created or truncated)
  out,               \* the lines written to the output file so far
  h,                 \* position of the header rewrite loop in header_lines
  in_primcoord, primcoord_atom_count, primcoord_lines_processed,
  primcoord_header_line_processed,
  primvec_lines, in_primvec, primvec_lines_count,
  target_begin,      \* history: index in lines of the line stored as datagrid_block_start (0: none)
  target_end,        \* history: index in lines of the line stored as datagrid_block_end (0: none)
  section_at,        \* history: index of the last BEGIN_DATAGRID_3D line read as the target's (0: none)
  emitted            \* history: for each header line rewritten so far, the lines written for it

mainVars == <<argv, usage_printed, exit_status>>

inputVars == <<input_file, datagrid_name, written_dimensions, mainVars>>

scanVars ==
  <<lines, i, header_lines, datagrid_block_start, datagrid_header, datagrid_block_end,
    datagrid_data_str, footer_lines, grid_dimensions, target_grid_name,
    in_datagrid_block, in_target_block, found_target_grid, current_block_lines,
    target_begin, target_end, section_at>>

dataVars == <<scale_factor, data_3d, shifted_data_3d, scaled_data_flat>>

rewriteVars ==
  <<h, in_primcoord, primcoord_atom_count, primcoord_lines_processed,
    primcoord_header_line_processed, primvec_lines, in_primvec, primvec_lines_count,
    emitted>>

writeVars == <<opened, out>>

vars == <<inputVars, pc, outcome, scanVars, dataVars, rewriteVars, writeVars>>

(***************************************************************************)
(* 1. Parse the XSF file.                                                  *)
(***************************************************************************)
Stop(result) == pc' = "done" /\ outcome' = result

\* with open(input_filename) ...: the lines, each rstrip()ped, or the
\* FileNotFoundError return
ReadInput ==
  /\ pc = "read"
  /\ IF input_file = None
       THEN /\ Stop("input_not_found")
            /\ UNCHANGED <<lines, i>>
       ELSE /\ lines' = [k \in DOMAIN input_file[1] |-> RStrip(input_file[1][k])]
            /\ i' = 1
            /\ pc' = "scan"
            /\ UNCHANGED outcome
  /\ UNCHANGED <<inputVars, header_lines, datagrid_block_start, datagrid_header,
                 datagrid_block_end, datagrid_data_str, footer_lines, grid_dimensions,
                 target_grid_name, in_datagrid_block, in_target_block, found_target_grid,
                 current_block_lines, target_begin, target_end, section_at,
                 dataVars, rewriteVars, writeVars>>

\* the grid name heuristic: one token, and no BEGIN_DATAGRID_3D in the line
IsNameLine(potential_grid_name_line) ==
  /\ Len(Split(potential_grid_name_line)) = 1
  /\ ~Contains(potential_grid_name_line, "BEGIN_DATAGRID_3D")

\* "is this the grid we are looking for", for a block with a name line
IsRequestedGrid(found, requested, grid_name) ==
  ~found /\ (requested = None \/ requested = Some(grid_name))

\* "if searching for the first grid and no name is found here, assume this
\* block is it", for a block without a name line
IsFirstUnnamedGrid(found, requested) == ~found /\ requested = None

\* a search for END_DATAGRID_3D that stops one line early and takes the last
\* line of the file for the end marker
RECURSIVE EndIndexOrLast(_, _)
EndIndexOrLast(ls, from) ==
  IF from >= Len(ls) \/ Contains(ls[from], "END_DATAGRID_3D") THEN from
  ELSE EndIndexOrLast(ls, from + 1)

\* a search for END_DATAGRID_3D that starts at the first line of the file
EndIndexFromStart(ls, from) ==
  LET ends == {k \in DOMAIN ls : Contains(ls[k], "END_DATAGRID_3D")}
  IN  IF ends = {} THEN Len(ls) + 1 ELSE CHOOSE k \in ends : \A x \in ends : k <= x

\* the first index >= from of a line containing END_DATAGRID_3D, or
\* Len(ls) + 1: where `while i < len(lines) and "END_DATAGRID_3D" not in
\* lines[i]: i += 1` stops
RECURSIVE EndIndex(_, _)
EndIndex(ls, from) ==
  IF from > Len(ls) \/ Contains(ls[from], "END_DATAGRID_3D") THEN from
  ELSE EndIndex(ls, from + 1)

\* the values of the lines a..b: each line's split(), concatenated
RECURSIVE TokensOf(_, _, _)
TokensOf(ls, a, b) ==
  IF a > b THEN <<>> ELSE Split(ls[a]) \o TokensOf(ls, a + 1, b)

\* a test that asks for one line more
EnoughLinesAndOne(at, n) == at + 5 < n

\* `if i + 5 < len(lines)` at the 0-based index i of BEGIN_DATAGRID_3D: at
\* least 5 lines follow the line at the 1-based index at
EnoughLines(at, n) == at + 5 <= n

\* the loop over lines found END_DATAGRID_3D (`if i < len(lines)`)
FoundEnd(j, n) == j <= n

\* if "BEGIN_BLOCK_DATAGRID_3D" in line:
ScanBlockStart ==
  /\ pc = "scan" /\ i <= Len(lines)
  /\ Contains(lines[i], "BEGIN_BLOCK_DATAGRID_3D")
  /\ LET line == lines[i]
         hasNext == i + 1 <= Len(lines)
         named == hasNext /\ IsNameLine(lines[i + 1])
         grid_name == IF named THEN Strip(lines[i + 1])[1] ELSE "DATAGRID_3D"
         selected == IF named
                       THEN IsRequestedGrid(found_target_grid, datagrid_name, grid_name)
                       ELSE hasNext /\ IsFirstUnnamedGrid(found_target_grid, datagrid_name)
     IN  /\ in_datagrid_block' = TRUE
         /\ current_block_lines' = IF named THEN <<line, <<grid_name>> >> ELSE <<line>>
         /\ in_target_block' = IF hasNext THEN selected ELSE in_target_block
         /\ found_target_grid' = (found_target_grid \/ selected)
         /\ target_grid_name' = IF selected THEN Some(grid_name) ELSE target_grid_name
         /\ datagrid_block_start' = IF selected THEN Some(line) ELSE datagrid_block_start
         /\ target_begin' = IF selected THEN i ELSE target_begin
         /\ i' = IF named THEN i + 2 ELSE i + 1
  /\ UNCHANGED <<inputVars, pc, outcome, lines, header_lines, datagrid_header,
                 datagrid_block_end, datagrid_data_str, footer_lines, grid_dimensions,
                 target_end, section_at, dataVars, rewriteVars, writeVars>>

\* elif "BEGIN_DATAGRID_3D" in line and in_datagrid_block: ... if in_target_block:
ScanTargetDatagrid ==
  /\ pc = "scan" /\ i <= Len(lines)
  /\ ~Contains(lines[i], "BEGIN_BLOCK_DATAGRID_3D")
  /\ Contains(lines[i], "BEGIN_DATAGRID_3D") /\ in_datagrid_block
  /\ in_target_block
  /\ LET n == Len(lines)
         enough == EnoughLines(i, n)
         parts == IF enough THEN Split(lines[i + 1]) ELSE <<>>
         parsed == \A k \in DOMAIN parts : IsInt(parts[k])
         j == EndIndex(lines, i + 6)
         found == FoundEnd(j, n)
         body == SubSeq(lines, i + 6, j - 1)
         ending == IF found THEN <<lines[j]>> ELSE <<>>
     IN  /\ section_at' = i
         /\ target_grid_name' =
              IF target_grid_name = None \/ target_grid_name = Some("DATAGRID_3D")
                THEN Some("DATAGRID_3D") ELSE target_grid_name
         /\ IF ~enough
              THEN \* "missing grid dimension/vector info"
                   /\ Stop("missing_grid_info")
                   /\ datagrid_header' = Append(datagrid_header, lines[i])
                   /\ current_block_lines' = Append(current_block_lines, lines[i])
                   /\ UNCHANGED <<i, grid_dimensions, datagrid_data_str>>
              ELSE IF ~parsed
              THEN \* int() raises ValueError, which nothing catches
                   /\ Stop("ValueError")
                   /\ datagrid_header' = datagrid_header \o <<lines[i], lines[i + 1]>>
                   /\ current_block_lines' = Append(current_block_lines, lines[i])
                   /\ UNCHANGED <<i, grid_dimensions, datagrid_data_str>>
              ELSE /\ grid_dimensions' = Some([k \in DOMAIN parts |-> IntOf(parts[k])])
                   /\ datagrid_header' =
                        datagrid_header \o <<lines[i], lines[i + 1]>>
                          \o SubSeq(lines, i + 2, i + 5) \o ending
                   /\ current_block_lines' =
                        Append(current_block_lines, lines[i])
                          \o SubSeq(lines, i + 2, i + 5) \o body \o ending
                   /\ datagrid_data_str' = datagrid_data_str \o TokensOf(lines, i + 6, j - 1)
                   /\ IF found
                        THEN i' = j + 1 /\ UNCHANGED <<pc, outcome>>
                        ELSE \* "missing END_DATAGRID_3D"
                             i' = j /\ Stop("missing_end")
  /\ UNCHANGED <<inputVars, lines, header_lines, datagrid_block_start, datagrid_block_end,
                 footer_lines, in_datagrid_block, in_target_block, found_target_grid,
                 target_begin, target_end, dataVars, rewriteVars, writeVars>>

\* elif "BEGIN_DATAGRID_3D" in line and in_datagrid_block: ... else: (non-target block)
ScanOtherDatagrid ==
  /\ pc = "scan" /\ i <= Len(lines)
  /\ ~Contains(lines[i], "BEGIN_BLOCK_DATAGRID_3D")
  /\ Contains(lines[i], "BEGIN_DATAGRID_3D") /\ in_datagrid_block
  /\ ~in_target_block
  /\ LET n == Len(lines)
         j == EndIndex(lines, i + 1)
     IN  IF FoundEnd(j, n)
           THEN /\ current_block_lines' = current_block_lines \o SubSeq(lines, i, j)
                /\ i' = j + 1
           ELSE \* "Non-target DATAGRID_3D block seems incomplete."
                /\ current_block_lines' = current_block_lines \o SubSeq(lines, i, n)
                /\ i' = j
  /\ UNCHANGED <<inputVars, pc, outcome, lines, header_lines, datagrid_block_start,
                 datagrid_header, datagrid_block_end, datagrid_data_str, footer_lines,
                 grid_dimensions, target_grid_name, in_datagrid_block, in_target_block,
                 found_target_grid, target_begin, target_end, section_at,
                 dataVars, rewriteVars, writeVars>>

\* elif "END_BLOCK_DATAGRID_3D" in line and in_datagrid_block:
ScanEndBlock ==
  /\ pc = "scan" /\ i <= Len(lines)
  /\ ~Contains(lines[i], "BEGIN_BLOCK_DATAGRID_3D")
  /\ ~(Contains(lines[i], "BEGIN_DATAGRID_3D") /\ in_datagrid_block)
  /\ Contains(lines[i], "END_BLOCK_DATAGRID_3D") /\ in_datagrid_block
  /\ LET block == Append(current_block_lines, lines[i])
     IN  IF in_target_block
           THEN /\ datagrid_block_end' = Some(lines[i])
                /\ target_end' = i
                /\ UNCHANGED <<header_lines, footer_lines>>
           ELSE /\ footer_lines' = IF found_target_grid THEN footer_lines \o block
                                   ELSE footer_lines
                /\ header_lines' = IF found_target_grid THEN header_lines
                                   ELSE header_lines \o block
                /\ UNCHANGED <<datagrid_block_end, target_end>>
  /\ in_target_block' = FALSE
  /\ in_datagrid_block' = FALSE
  /\ current_block_lines' = <<>>
  /\ i' = i + 1
  /\ UNCHANGED <<inputVars, pc, outcome, lines, datagrid_block_start, datagrid_header,
                 datagrid_data_str, grid_dimensions, target_grid_name, found_target_grid,
                 target_begin, section_at, dataVars, rewriteVars, writeVars>>

\* elif in_datagrid_block: (a line of a block that is no marker)
ScanBlockLine ==
  /\ pc = "scan" /\ i <= Len(lines)
  /\ ~Contains(lines[i], "BEGIN_BLOCK_DATAGRID_3D")
  /\ ~Contains(lines[i], "BEGIN_DATAGRID_3D")
  /\ ~Contains(lines[i], "END_BLOCK_DATAGRID_3D")
  /\ in_datagrid_block
  /\ current_block_lines' = Append(current_block_lines, lines[i])
  /\ i' = i + 1
  /\ UNCHANGED <<inputVars, pc, outcome, lines, header_lines, datagrid_block_start,
                 datagrid_header, datagrid_block_end, datagrid_data_str, footer_lines,
                 grid_dimensions, target_grid_name, in_datagrid_block, in_target_block,
                 found_target_grid, target_begin, target_end, section_at,
                 dataVars, rewriteVars, writeVars>>

\* elif not in_datagrid_block: (a line outside any block)
ScanOutsideLine ==
  /\ pc = "scan" /\ i <= Len(lines)
  /\ ~Contains(lines[i], "BEGIN_BLOCK_DATAGRID_3D")
  /\ ~in_datagrid_block
  /\ footer_lines' = IF found_target_grid THEN Append(footer_lines, lines[i])
                     ELSE footer_lines
  /\ header_lines' = IF found_target_grid THEN header_lines
                     ELSE Append(header_lines, lines[i])
  /\ i' = i + 1
  /\ UNCHANGED <<inputVars, pc, outcome, lines, datagrid_block_start, datagrid_header,
                 datagrid_block_end, datagrid_data_str, grid_dimensions, target_grid_name,
                 in_datagrid_block, in_target_block, found_target_grid,
                 current_block_lines, target_begin, target_end, section_at,
                 dataVars, rewriteVars, writeVars>>

\* the loop has ended: `if not found_target_grid`, `if grid_dimensions is None`
ScanFinish ==
  /\ pc = "scan" /\ i > Len(lines)
  /\ IF ~found_target_grid THEN Stop("target_not_found")
     ELSE IF grid_dimensions = None THEN Stop("no_dimensions")
     ELSE pc' = "load" /\ UNCHANGED outcome
  /\ UNCHANGED <<inputVars, scanVars, dataVars, rewriteVars, writeVars>>

(***************************************************************************)
(* 2. Data loading and reshaping.  3-6. Shift, scale, flatten.             *)
(***************************************************************************)
RECURSIVE Repeat(_, _)
Repeat(v, k) == IF k <= 0 THEN <<>> ELSE <<v>> \o Repeat(v, k - 1)

\* a reconciliation that drops the first values, not the last, and pads in front
ReconcileAtFront(data, total) ==
  IF Len(data) > total THEN SubSeq(data, Len(data) - total + 1, Len(data))
  ELSE Repeat("0.0", total - Len(data)) \o data

\* a reconciliation that pads but leaves the extra values in place
ReconcilePadOnly(data, total) ==
  IF Len(data) > total THEN data
  ELSE data \o Repeat("0.0", total - Len(data))

\* "Data point count correction": truncate the extra values, or pad with
\* '0.0' (total >= 0)
Reconcile(data, total) ==
  IF Len(data) > total THEN SubSeq(data, 1, total)
  ELSE data \o Repeat("0.0", total - Len(data))

\* the index set of an array of shape dims
Cells(dims) ==
  {<<x, y, z>> : x \in 0 .. dims[1] - 1, y \in 0 .. dims[2] - 1, z \in 0 .. dims[3] - 1}

\* order='F': the first index changes fastest (0-based position in the flat array)
FortranIndex(c, dims) == c[1] + dims[1] * (c[2] + dims[2] * c[3])

\* data_flat.reshape((Nx, Ny, Nz), order='F')
Reshape(flat, dims) == [c \in Cells(dims) |-> flat[FortranIndex(c, dims) + 1]]

\* arr.flatten(order='F')
Flatten(arr, dims) ==
  [k \in 1 .. dims[1] * dims[2] * dims[3] |->
     arr[CHOOSE c \in Cells(dims) : FortranIndex(c, dims) + 1 = k]]

\* a roll in the opposite direction
RollTargetBackwards(c, shift, dims) ==
  <<(c[1] - shift[1]) % dims[1], (c[2] - shift[2]) % dims[2], (c[3] - shift[3]) % dims[3]>>

\* where np.roll moves the element at cell c: along each axis, elements that
\* roll beyond the last position are re-introduced at the first
RollTarget(c, shift, dims) ==
  <<(c[1] + shift[1]) % dims[1], (c[2] + shift[2]) % dims[2], (c[3] + shift[3]) % dims[3]>>

\* np.roll(arr, shift=shift, axis=(0, 1, 2))
Roll(arr, shift, dims) ==
  [c \in Cells(dims) |-> arr[CHOOSE b \in Cells(dims) : RollTarget(b, shift, dims) = c]]

\* shift amounts rounded up, not down
ShiftOfRoundedUp(dims) ==
  <<(dims[1] + 1) \div 2, (dims[2] + 1) \div 2, (dims[3] + 1) \div 2>>

\* shift_x = Nx // 2 ...
ShiftOf(dims) == <<dims[1] \div 2, dims[2] \div 2, dims[3] \div 2>>

\* np.max(np.abs(arr)) of a non-empty array
MaxAbs(arr) ==
  LET vals == {RAbs(arr[c]) : c \in DOMAIN arr}
  IN  CHOOSE m \in vals : \A v \in vals : ~RLess(m, v)

\* an automatic factor that brings the maximum to 1.0, not to 10.0
ScaleForUnitMaximum(given, max_value) ==
  IF given # None THEN given[1]
  ELSE IF RLess(<<0, 1>>, max_value) THEN RDiv(<<1, 1>>, max_value)
  ELSE <<1, 1>>

\* "Determine scale factor"
ScaleFor(given, max_value) ==
  IF given # None THEN given[1]
  ELSE IF RLess(<<0, 1>>, max_value) THEN RDiv(<<10, 1>>, max_value)
  ELSE <<10, 1>>

LoadData ==
  /\ pc = "load"
  /\ LET dims == grid_dimensions[1]
         total == dims[1] * dims[2] * dims[3]
         data == Reconcile(datagrid_data_str, total)
     IN  IF Len(dims) # 3
           THEN \* `Nx, Ny, Nz = grid_dimensions` raises ValueError, which nothing catches
                /\ Stop("ValueError")
                /\ UNCHANGED <<datagrid_data_str, data_3d>>
           ELSE IF \E k \in DOMAIN data : ~IsFloat(data[k])
           THEN \* except ValueError: "Error during data processing"
                /\ Stop("data_error")
                /\ datagrid_data_str' = data
                /\ UNCHANGED data_3d
           ELSE /\ datagrid_data_str' = data
                /\ data_3d' = Reshape([k \in DOMAIN data |-> FloatOf(data[k])], dims)
                /\ pc' = "shift"
                /\ UNCHANGED outcome
  /\ UNCHANGED <<inputVars, lines, i, header_lines, datagrid_block_start, datagrid_header,
                 datagrid_block_end, footer_lines, grid_dimensions, target_grid_name,
                 in_datagrid_block, in_target_block, found_target_grid,
                 current_block_lines, target_begin, target_end, section_at,
                 scale_factor, shifted_data_3d, scaled_data_flat, rewriteVars, writeVars>>

ShiftAndScale ==
  /\ pc = "shift"
  /\ LET dims == grid_dimensions[1]
         shifted == Roll(data_3d, ShiftOf(dims), dims)
         factor == ScaleFor(scale_factor, MaxAbs(shifted))
     IN  /\ shifted_data_3d' = shifted
         /\ scale_factor' = Some(factor)
         /\ scaled_data_flat' = Flatten([c \in Cells(dims) |-> RMul(shifted[c], factor)], dims)
  /\ pc' = "open"
  /\ UNCHANGED <<inputVars, outcome, scanVars, data_3d, rewriteVars, writeVars>>

(***************************************************************************)
(* 7. Write the output file.                                               *)
(***************************************************************************)
data_points_per_line == 6

\* with open(output_filename, 'w') as outfile: and the flags set before the loop
OpenOutput ==
  /\ pc = "open"
  /\ opened' = TRUE
  /\ out' = <<>>
  /\ h' = 1
  /\ in_primcoord' = FALSE /\ primcoord_atom_count' = 0
  /\ primcoord_lines_processed' = 0 /\ primcoord_header_line_processed' = FALSE
  /\ primvec_lines' = <<>> /\ in_primvec' = FALSE /\ primvec_lines_count' = 0
  /\ emitted' = <<>>
  /\ pc' = "header"
  /\ UNCHANGED <<inputVars, outcome, scanVars, dataVars>>

\* open() raises IOError: "Could not write to output file"
OpenFails ==
  /\ pc = "open"
  /\ Stop("io_error")
  /\ UNCHANGED <<inputVars, scanVars, dataVars, rewriteVars, writeVars>>

\* outfile.write raises IOError somewhere in the write phase: what was
\* written stays in the file
WriteFails ==
  /\ pc \in {"header", "footer"}
  /\ Stop("io_error")
  /\ UNCHANGED <<inputVars, scanVars, dataVars, rewriteVars, writeVars>>

\* one pass of `for line in header_lines:` writes ls for the line at h
Emit(ls) ==
  /\ out' = out \o ls
  /\ emitted' = Append(emitted, ls)
  /\ h' = h + 1

\* if "PRIMVEC" in line:
HeaderPrimvecMarker ==
  /\ pc = "header" /\ h <= Len(header_lines)
  /\ Contains(header_lines[h], "PRIMVEC")
  /\ in_primvec' = TRUE
  /\ primvec_lines' = <<header_lines[h]>>
  /\ Emit(<<header_lines[h]>>)
  /\ UNCHANGED <<inputVars, pc, outcome, scanVars, dataVars, opened, in_primcoord,
                 primcoord_atom_count, primcoord_lines_processed,
                 primcoord_header_line_processed, primvec_lines_count>>

\* the lines primvec_lines[1], primvec_lines[2], primvec_lines[3] (0-based)
\* that `for i in range(1, 4)` writes before an IndexError, if any, ends it
ConvvecLines(pl) == SubSeq(pl, 2, IF Len(pl) < 4 THEN Len(pl) ELSE 4)

\* if in_primvec:
HeaderPrimvecLine ==
  /\ pc = "header" /\ h <= Len(header_lines)
  /\ ~Contains(header_lines[h], "PRIMVEC")
  /\ in_primvec
  /\ LET line == header_lines[h]
         pl == Append(primvec_lines, line)
         count == primvec_lines_count + 1
     IN  /\ primvec_lines' = pl
         /\ primvec_lines_count' = count
         /\ IF count = 3
              THEN /\ in_primvec' = FALSE
                   /\ Emit(<<line, <<"CONVVEC">> >> \o ConvvecLines(pl))
                   /\ IF Len(pl) < 4
                        THEN \* IndexError, caught by `except Exception`:
                             \* "An unexpected error occurred during file writing"
                             Stop("write_exception")
                        ELSE UNCHANGED <<pc, outcome>>
              ELSE /\ Emit(<<line>>)
                   /\ UNCHANGED <<in_primvec, pc, outcome>>
  /\ UNCHANGED <<inputVars, scanVars, dataVars, opened, in_primcoord,
                 primcoord_atom_count, primcoord_lines_processed,
                 primcoord_header_line_processed>>

\* if "PRIMCOORD" in line:
HeaderPrimcoordMarker ==
  /\ pc = "header" /\ h <= Len(header_lines)
  /\ ~Contains(header_lines[h], "PRIMVEC") /\ ~in_primvec
  /\ Contains(header_lines[h], "PRIMCOORD")
  /\ in_primcoord' = TRUE
  /\ Emit(<<header_lines[h]>>)
  /\ UNCHANGED <<inputVars, pc, outcome, scanVars, dataVars, opened,
                 primcoord_atom_count, primcoord_lines_processed,
                 primcoord_header_line_processed, primvec_lines, in_primvec,
                 primvec_lines_count>>

\* the atom count line with the force flag set to 0: f"  {parts[0]:<4} {parts[1]:>5}"
CountLineRewrite(line) ==
  LET parts == Split(line)
  IN  IF Len(parts) > 1 /\ parts[2] = "1" THEN <<WS, parts[1], "0">> ELSE line

\* if in_primcoord: if not primcoord_header_line_processed:
HeaderCountLine ==
  /\ pc = "header" /\ h <= Len(header_lines)
  /\ ~Contains(header_lines[h], "PRIMVEC") /\ ~in_primvec
  /\ ~Contains(header_lines[h], "PRIMCOORD")
  /\ in_primcoord /\ ~primcoord_header_line_processed
  /\ LET line == header_lines[h]
         parts == Split(line)
     IN  IF Len(parts) >= 1 /\ ~IsInt(parts[1])
           THEN \* except (ValueError, IndexError): "Assume invalid PRIMCOORD structure"
                /\ Emit(<<line>>)
                /\ in_primcoord' = FALSE
                /\ UNCHANGED <<primcoord_atom_count, primcoord_header_line_processed>>
           ELSE /\ primcoord_atom_count' =
                     IF Len(parts) >= 1 THEN IntOf(parts[1]) ELSE primcoord_atom_count
                /\ Emit(<<CountLineRewrite(line)>>)
                /\ primcoord_header_line_processed' = TRUE
                /\ UNCHANGED in_primcoord
  /\ UNCHANGED <<inputVars, pc, outcome, scanVars, dataVars, opened,
                 primcoord_lines_processed, primvec_lines, in_primvec, primvec_lines_count>>

\* "Try to convert atom type to element symbol"
AtomType(tok) ==
  IF IsInt(tok) /\ IntOf(tok) \in DOMAIN ELEMENTS THEN ELEMENTS[IntOf(tok)] ELSE tok

\* the atom line without forces:
\* f"  {atom_type:<3} {x:>14.9f} {y:>14.9f} {z:>14.9f}", or the line itself
AtomLineRewrite(line) ==
  LET parts == Split(line)
  IN  IF Len(parts) >= 4 /\ IsFloat(parts[2]) /\ IsFloat(parts[3]) /\ IsFloat(parts[4])
        THEN <<WS, AtomType(parts[1]), FormatF9(FloatOf(parts[2])),
               FormatF9(FloatOf(parts[3])), FormatF9(FloatOf(parts[4]))>>
        ELSE line

\* elif primcoord_lines_processed < primcoord_atom_count:
HeaderAtomLine ==
  /\ pc = "header" /\ h <= Len(header_lines)
  /\ ~Contains(header_lines[h], "PRIMVEC") /\ ~in_primvec
  /\ ~Contains(header_lines[h], "PRIMCOORD")
  /\ in_primcoord /\ primcoord_header_line_processed
  /\ primcoord_lines_processed < primcoord_atom_count
  /\ Emit(<<AtomLineRewrite(header_lines[h])>>)
  /\ primcoord_lines_processed' = primcoord_lines_processed + 1
  /\ in_primcoord' = (primcoord_lines_processed + 1 # primcoord_atom_count)
  /\ UNCHANGED <<inputVars, pc, outcome, scanVars, dataVars, opened,
                 primcoord_atom_count, primcoord_header_line_processed,
                 primvec_lines, in_primvec, primvec_lines_count>>

\* else: "Should not happen if count is correct, but handles extra lines",
\* then `if not in_primcoord: outfile.write(line)`
HeaderExtraLine ==
  /\ pc = "header" /\ h <= Len(header_lines)
  /\ ~Contains(header_lines[h], "PRIMVEC") /\ ~in_primvec
  /\ ~Contains(header_lines[h], "PRIMCOORD")
  /\ in_primcoord /\ primcoord_header_line_processed
  /\ primcoord_lines_processed >= primcoord_atom_count
  /\ in_primcoord' = FALSE
  /\ Emit(<<header_lines[h]>>)
  /\ UNCHANGED <<inputVars, pc, outcome, scanVars, dataVars, opened,
                 primcoord_atom_count, primcoord_lines_processed,
                 primcoord_header_line_processed, primvec_lines, in_primvec,
                 primvec_lines_count>>

\* "Write lines outside PRIMCOORD or after finishing it"
HeaderPlainLine ==
  /\ pc = "header" /\ h <= Len(header_lines)
  /\ ~Contains(header_lines[h], "PRIMVEC") /\ ~in_primvec
  /\ ~Contains(header_lines[h], "PRIMCOORD")
  /\ ~in_primcoord
  /\ Emit(<<header_lines[h]>>)
  /\ UNCHANGED <<inputVars, pc, outcome, scanVars, dataVars, opened, in_primcoord,
                 primcoord_atom_count, primcoord_lines_processed,
                 primcoord_header_line_processed, primvec_lines, in_primvec,
                 primvec_lines_count>>

\* the data rows: data_points_per_line values a line, each as "{:.8E}"
RECURSIVE DataRows(_)
DataRows(flat) ==
  IF flat = <<>> THEN <<>>
  ELSE LET k == IF Len(flat) < data_points_per_line THEN Len(flat)
                ELSE data_points_per_line
       IN  <<[p \in 1 .. k |-> FormatE8(flat[p])]>> \o DataRows(SubSeq(flat, k + 1, Len(flat)))

\* "Write the start of the target DATAGRID block" and the grid name
BlockPreamble ==
  (IF datagrid_block_start # None THEN <<datagrid_block_start[1]>> ELSE <<>>)
    \o (IF target_grid_name # None
           /\ target_grid_name[1] \notin TokensContaining("BEGIN_DATAGRID_3D")
          THEN << <<target_grid_name[1]>> >> ELSE <<>>)

\* for header_line in datagrid_header[:-1]
GridPreamble == SubSeq(datagrid_header, 1, Len(datagrid_header) - 1)

\* a writer that writes no end marker after the data rows
EndMarkerOmitted == <<>>

\* "Write the DATAGRID_3D end marker": the captured line or the standard marker
EndMarker ==
  IF datagrid_header # <<>>
       /\ StartsWith(datagrid_header[Len(datagrid_header)], "END_DATAGRID_3D")
    THEN <<datagrid_header[Len(datagrid_header)]>>
    ELSE << <<"END_DATAGRID_3D">> >>

\* "Write the end of the DATAGRID block"
BlockEnd == IF datagrid_block_end # None THEN <<datagrid_block_end[1]>> ELSE <<>>

\* after the header loop: block start, name, grid header, data, end markers
WriteTargetBlock ==
  /\ pc = "header" /\ h > Len(header_lines)
  /\ out' = out \o BlockPreamble \o GridPreamble \o DataRows(scaled_data_flat)
              \o EndMarker \o BlockEnd
  /\ pc' = "footer"
  /\ UNCHANGED <<inputVars, outcome, scanVars, dataVars, rewriteVars, opened>>

\* for footer_line in footer_lines: ... "Processing complete."
WriteFooter ==
  /\ pc = "footer"
  /\ out' = out \o footer_lines
  /\ Stop("ok")
  /\ UNCHANGED <<inputVars, scanVars, dataVars, rewriteVars, opened>>

(***************************************************************************)
(* The input files of the model.  Three families: files that vary the      *)
(* block structure, files that vary the grid of one block, and files that  *)
(* vary the header in front of one block.                                  *)
(***************************************************************************)
RECURSIVE Concat(_)
Concat(seqs) == IF seqs = <<>> THEN <<>> ELSE Head(seqs) \o Concat(Tail(seqs))

\* all sequences over S of length at most n
SeqsUpTo(S, n) == UNION {[1 .. k -> S] : k \in 0 .. n}

BeginBlock == <<"BEGIN_BLOCK_DATAGRID_3D">>

BeginGrid == <<WS, "BEGIN_DATAGRID_3D_rho">>

EndGrid == <<WS, "END_DATAGRID_3D">>

EndBlock == <<"END_BLOCK_DATAGRID_3D">>

OriginAndVectors ==
  << <<WS, "0.0", "0.0", "0.0">>, <<WS, "1", "0.0", "0.0">>,
     <<WS, "0.0", "1", "0.0">>, <<WS, "0.0", "0.0", "1">> >>

Comment == <<"#", "note">>

\* the k-th data value of a file: k, negative when k is even
DataToken(k) == ToString(IF k % 2 = 0 THEN 0 - k ELSE k)

\* the tokens toks as data lines of at most 4 values, each line indented
RECURSIVE DataLines(_)
DataLines(toks) ==
  IF toks = <<>> THEN <<>>
  ELSE LET k == IF Len(toks) < 4 THEN Len(toks) ELSE 4
       IN  <<<<WS>> \o SubSeq(toks, 1, k)>> \o DataLines(SubSeq(toks, k + 1, Len(toks)))

\* one BEGIN_DATAGRID_3D ... END_DATAGRID_3D section
GridSection(dim_line, toks) ==
  <<BeginGrid, dim_line>> \o OriginAndVectors \o DataLines(toks) \o <<EndGrid>>

\* the 2 x 1 x 1 section of the p-th block of a file, with the values 2p-1 and -2p
SmallSection(p) ==
  GridSection(<<WS, "2", "1", "1">>, <<DataToken(2 * p - 1), DataToken(2 * p)>>)

BlockShapes ==
  { <<"plain", "density">>, <<"plain", "potential">>, <<"indented", "density">>,
    <<"indented", "potential">>, <<"unnamed", "">>, <<"no_end", "density">>,
    <<"no_end_block", "density">>, <<"two_sections", "potential">>,
    <<"extra", "potential">>, <<"bad_dim", "potential">>, <<"short", "potential">>,
    <<"empty", "density">>, <<"bad_dim_no_end", "potential">> }

\* the lines of the p-th block of a file, of shape b
BlockLines(b, p) ==
  LET name == <<b[2]>>
      sec == SmallSection(p)
  IN  CASE b[1] = "plain" -> <<BeginBlock, name>> \o sec \o <<EndBlock>>
        [] b[1] = "indented" -> <<BeginBlock, <<WS, b[2]>> >> \o sec \o <<EndBlock>>
        [] b[1] = "unnamed" -> <<BeginBlock>> \o sec \o <<EndBlock>>
        [] b[1] = "no_end" ->
             <<BeginBlock, name>> \o SubSeq(sec, 1, Len(sec) - 1) \o <<EndBlock>>
        [] b[1] = "no_end_block" -> <<BeginBlock, name>> \o sec
        [] b[1] = "two_sections" ->
             <<BeginBlock, name>> \o sec
               \o GridSection(<<WS, "1", "2", "1">>, <<DataToken(9), DataToken(10)>>)
               \o <<EndBlock>>
        [] b[1] = "extra" ->
             <<BeginBlock, name, Comment>> \o sec \o <<Comment, EndBlock>>
        [] b[1] = "bad_dim" ->
             <<BeginBlock, name>>
               \o GridSection(<<WS, "2", "x", "1">>, <<DataToken(1), DataToken(2)>>)
               \o <<EndBlock>>
        [] b[1] = "bad_dim_no_end" ->
             <<BeginBlock, name>> \o <<BeginGrid, <<WS, "2", "x", "1">> >>
               \o OriginAndVectors \o DataLines(<<DataToken(1), DataToken(2)>>)
               \o <<EndBlock>>
        [] b[1] = "short" -> <<BeginBlock, name>> \o SubSeq(sec, 1, 5)
        [] OTHER -> <<BeginBlock, name, EndBlock>>

RECURSIVE BlocksFrom(_, _)
BlocksFrom(bs, p) ==
  IF p > Len(bs) THEN <<>> ELSE BlockLines(bs[p], p) \o BlocksFrom(bs, p + 1)

RECURSIVE WrappedBlocksFrom(_, _)
WrappedBlocksFrom(bs, p) ==
  IF p > Len(bs) THEN <<>>
  ELSE BlockLines(bs[p], p) \o << <<"#", "after", ToString(p)>> >>
         \o WrappedBlocksFrom(bs, p + 1)

\* files that vary the blocks: bare, or with lines in front of, between and
\* behind the blocks (one of them ending with whitespace in the file)
StructureFiles ==
  {[file |-> Some(IF wrapped
                    THEN << <<"CRYSTAL", WS>>, <<WS, "#", "head">> >>
                           \o WrappedBlocksFrom(bs, 1)
                    ELSE BlocksFrom(bs, 1)),
    name |-> req, scale |-> None] :
     bs \in SeqsUpTo(BlockShapes, MaxBlocks), wrapped \in BOOLEAN,
     req \in {None, Some("density"), Some("potential")}}

\* the data of a grid of `total` points: two values too few, exact, two too
\* many, and those with a token that is no number at the head or at the tail
GridData(total, kind) ==
  LET count == CASE kind = "short" -> IF total < 2 THEN 0 ELSE total - 2
                 [] kind \in {"long", "long_bad_tail"} -> total + 2
                 [] OTHER -> total
  IN  [k \in 1 .. count |->
         IF (kind = "bad_head" /\ k = 1) \/ (kind = "long_bad_tail" /\ k = count)
           THEN "x" ELSE DataToken(k)]

\* files that vary the grid: one block of every shape up to MaxDim per axis
GridFiles ==
  {[file |-> Some(<< <<"CRYSTAL">>, BeginBlock, <<WS, "rho">> >>
                    \o GridSection(<<WS, ToString(nx), ToString(ny), ToString(nz)>>,
                                   GridData(nx * ny * nz, kind))
                    \o <<EndBlock>>),
    name |-> None, scale |-> sc] :
     nx \in 1 .. MaxDim, ny \in 1 .. MaxDim, nz \in 1 .. MaxDim,
     kind \in {"short", "exact", "long", "long_bad_tail", "bad_head"},
     sc \in {None, Some(<<1, 1>>), Some(<<3, 2>>)}}

HeaderShapes ==
  {"crystal", "primvec", "primvec_short", "atoms_forces", "atoms_plain",
   "atoms_bad_count", "atoms_odd", "atoms_none", "atoms_empty", "atoms_cut"}

HeaderLines(s) ==
  CASE s = "crystal" -> << <<"CRYSTAL">> >>
    [] s = "primvec" ->
         << <<"PRIMVEC">>, <<WS, "1", "0.0", "0.0">>, <<WS, "0.0", "1", "0.0">>,
            <<WS, "0.0", "0.0", "1">> >>
    [] s = "primvec_short" ->
         << <<"PRIMVEC">>, <<WS, "1", "0.0", "0.0">>, <<WS, "0.0", "1", "0.0">> >>
    [] s = "atoms_forces" ->
         << <<"PRIMCOORD">>, <<WS, "2", "1">>,
            <<"6", "0.0", "0.0", "0.0", "1", "2", "3">>,
            <<WS, "Si", "0.5", "0.5", "0.5", "0.0", "0.0", "0.0">> >>
    [] s = "atoms_plain" ->
         << <<"PRIMCOORD">>, <<"1", "0">>, <<"119", "0.0", "0.5", "1.5">>,
            <<"8", "1", "1", "1", "0.5">> >>
    [] s = "atoms_bad_count" ->
         << <<"PRIMCOORD">>, <<"x", "1">>, <<"6", "0.0", "0.0", "0.0", "1", "2", "3">> >>
    [] s = "atoms_odd" ->
         << <<"PRIMCOORD">>, <<"2">>, <<"6", "0.0", "y", "0.0", "1">>,
            <<"8", "0.0", "0.0">> >>
    [] s = "atoms_none" -> << <<"PRIMCOORD">>, <<"0", "1">>, <<>> >>
    [] s = "atoms_cut" ->
         << <<"PRIMCOORD">>, <<"3", "1">>,
            <<"6", "0.0", "0.0", "0.0", "1", "2", "3">> >>
    [] OTHER -> << <<"PRIMCOORD">>, <<"0", "1">> >>

\* files that vary the header in front of one block of a single point
HeaderFiles ==
  {[file |-> Some(Concat([k \in DOMAIN ss |-> HeaderLines(ss[k])])
                    \o <<BeginBlock, <<"rho">> >>
                    \o GridSection(<<"1", "1", "1">>, <<DataToken(1)>>)
                    \o <<EndBlock>>),
    name |-> None, scale |-> None] :
     ss \in SeqsUpTo(HeaderShapes, MaxSections)}

Inputs ==
  StructureFiles \cup GridFiles \cup HeaderFiles
    \cup {[file |-> None, name |-> None, scale |-> None]}

(***************************************************************************)
(* The call process_xsf(input_filename, output_filename, datagrid_name,    *)
(* scale_factor) on one of the input files.                                *)
(***************************************************************************)
Init ==
  /\ \E f \in Inputs :
       /\ input_file = f.file
       /\ datagrid_name = f.name
       /\ written_dimensions = None
       /\ scale_factor = f.scale
  /\ argv = <<>> /\ usage_printed = FALSE /\ exit_status = None
  /\ pc = "read"
  /\ outcome = ""
  /\ lines = <<>> /\ i = 1
  /\ header_lines = <<>>
  /\ datagrid_block_start = None
  /\ datagrid_header = <<>>
  /\ datagrid_block_end = None
  /\ datagrid_data_str = <<>>
  /\ footer_lines = <<>>
  /\ grid_dimensions = None
  /\ target_grid_name = None
  /\ in_datagrid_block = FALSE
  /\ in_target_block = FALSE
  /\ found_target_grid = FALSE
  /\ current_block_lines = <<>>
  /\ data_3d = <<>> /\ shifted_data_3d = <<>> /\ scaled_data_flat = <<>>
  /\ opened = FALSE /\ out = <<>>
  /\ h = 1
  /\ in_primcoord = FALSE /\ primcoord_atom_count = 0
  /\ primcoord_lines_processed = 0 /\ primcoord_header_line_processed = FALSE
  /\ primvec_lines = <<>> /\ in_primvec = FALSE /\ primvec_lines_count = 0
  /\ target_begin = 0 /\ target_end = 0 /\ section_at = 0
  /\ emitted = <<>>

Next ==
  \/ ReadInput
  \/ ScanBlockStart
  \/ ScanTargetDatagrid
  \/ ScanOtherDatagrid
  \/ ScanEndBlock
  \/ ScanBlockLine
  \/ ScanOutsideLine
  \/ ScanFinish
  \/ LoadData
  \/ ShiftAndScale
  \/ OpenOutput
  \/ OpenFails
  \/ WriteFails
  \/ HeaderPrimvecMarker
  \/ HeaderPrimvecLine
  \/ HeaderPrimcoordMarker
  \/ HeaderCountLine
  \/ HeaderAtomLine
  \/ HeaderExtraLine
  \/ HeaderPlainLine
  \/ WriteTargetBlock
  \/ WriteFooter

Spec == Init /\ [][Next]_vars

(***************************************************************************)
(* The reader run on the output of a call: after a call that wrote its     *)
(* output, the scanner of process_xsf (lines 45-205) reads that file with   *)
(* the same datagrid_name.  What follows the scan is not run again.        *)
(***************************************************************************)
FirstCall == written_dimensions = None /\ Next

\* the file written becomes the input file of a new call
ReadOutput ==
  /\ pc = "done" /\ outcome = "ok" /\ written_dimensions = None
  /\ written_dimensions' = grid_dimensions
  /\ input_file' = Some(out)
  /\ pc' = "read" /\ outcome' = ""
  /\ lines' = <<>> /\ i' = 1
  /\ header_lines' = <<>>
  /\ datagrid_block_start' = None
  /\ datagrid_header' = <<>>
  /\ datagrid_block_end' = None
  /\ datagrid_data_str' = <<>>
  /\ footer_lines' = <<>>
  /\ grid_dimensions' = None
  /\ target_grid_name' = None
  /\ in_datagrid_block' = FALSE
  /\ in_target_block' = FALSE
  /\ found_target_grid' = FALSE
  /\ current_block_lines' = <<>>
  /\ target_begin' = 0 /\ target_end' = 0 /\ section_at' = 0
  /\ UNCHANGED <<datagrid_name, mainVars, dataVars, rewriteVars, writeVars>>

\* a step of the scanner on the file written
ScanOutput ==
  /\ written_dimensions # None
  /\ \/ ReadInput
     \/ ScanBlockStart
     \/ ScanTargetDatagrid
     \/ ScanOtherDatagrid
     \/ ScanEndBlock
     \/ ScanBlockLine
     \/ ScanOutsideLine
     \/ ScanFinish

NextReread == FirstCall \/ ReadOutput \/ ScanOutput

SpecReread == Init /\ [][NextReread]_vars

(***************************************************************************)
(* The script: the main execution block reads sys.argv and either exits    *)
(* or calls process_xsf (pc = "read") with the arguments it has chosen.    *)
(***************************************************************************)
MaxArgv == 6

ArgumentWords == {"in.xsf", "out.xsf", "1.5", "rho"}

default_input_file == "psir_plrn.xsf"

\* the files of the working directory the script is run in
FileAt(filename) ==
  IF filename = "in.xsf"
  THEN Some(<<BeginBlock, <<"rho">> >>
              \o GridSection(<<"1", "1", "1">>, <<DataToken(1)>>)
              \o <<EndBlock>>)
  ELSE None

CommandLines ==
  UNION {[1 .. n -> ArgumentWords \cup {"center_xsf.py"}] : n \in 1 .. MaxArgv}

\* the number of arguments the usage line describes is missing or exceeded
UsageError(n) == n < 3 /\ n # 1

\* the third and fourth arguments, each read as a factor when float() takes it
ArgumentsOf(a) ==
  LET n == Len(a)
  IN  IF n < 4 THEN [scale |-> None, name |-> None]
      ELSE IF IsFloat(a[3 + 1])
        THEN [scale |-> Some(FloatOf(a[3 + 1])),
              name |-> IF n >= 5 THEN Some(a[4 + 1]) ELSE None]
        ELSE [scale |-> IF n >= 5 /\ IsFloat(a[4 + 1])
                          THEN Some(FloatOf(a[4 + 1])) ELSE None,
              name |-> Some(a[3 + 1])]

MainArguments ==
  /\ pc = "main" /\ Len(argv) >= 3
  /\ input_file' = FileAt(argv[1 + 1])
  /\ datagrid_name' = ArgumentsOf(argv).name
  /\ scale_factor' = ArgumentsOf(argv).scale
  /\ pc' = "read"
  /\ UNCHANGED <<written_dimensions, mainVars, outcome, scanVars, data_3d,
                 shifted_data_3d, scaled_data_flat, rewriteVars, writeVars>>

MainUsageError ==
  /\ pc = "main" /\ UsageError(Len(argv))
  /\ usage_printed' = TRUE
  /\ exit_status' = Some(1)
  /\ pc' = "exit"
  /\ UNCHANGED <<input_file, datagrid_name, written_dimensions, argv, outcome,
                 scanVars, dataVars, rewriteVars, writeVars>>

MainDefaults ==
  /\ pc = "main" /\ Len(argv) < 3 /\ ~UsageError(Len(argv))
  /\ usage_printed' = TRUE
  /\ input_file' = FileAt(default_input_file)
  /\ pc' = "read"
  /\ UNCHANGED <<datagrid_name, written_dimensions, argv, exit_status, outcome,
                 scanVars, dataVars, rewriteVars, writeVars>>

InitMain ==
  /\ argv \in CommandLines /\ argv[1] = "center_xsf.py"
  /\ usage_printed = FALSE /\ exit_status = None
  /\ input_file = None /\ datagrid_name = None /\ written_dimensions = None
  /\ scale_factor = None
  /\ pc = "main"
  /\ outcome = ""
  /\ lines = <<>> /\ i = 1
  /\ header_lines = <<>>
  /\ datagrid_block_start = None
  /\ datagrid_header = <<>>
  /\ datagrid_block_end = None
  /\ datagrid_data_str = <<>>
  /\ footer_lines = <<>>
  /\ grid_dimensions = None
  /\ target_grid_name = None
  /\ in_datagrid_block = FALSE
  /\ in_target_block = FALSE
  /\ found_target_grid = FALSE
  /\ current_block_lines = <<>>
  /\ data_3d = <<>> /\ shifted_data_3d = <<>> /\ scaled_data_flat = <<>>
  /\ opened = FALSE /\ out = <<>>
  /\ h = 1
  /\ in_primcoord = FALSE /\ primcoord_atom_count = 0
  /\ primcoord_lines_processed = 0 /\ primcoord_header_line_processed = FALSE
  /\ primvec_lines = <<>> /\ in_primvec = FALSE /\ primvec_lines_count = 0
  /\ target_begin = 0 /\ target_end = 0 /\ section_at = 0
  /\ emitted = <<>>

NextMain == MainArguments \/ MainUsageError \/ MainDefaults

SpecMain == InitMain /\ [][NextMain]_vars

(***************************************************************************)
(* Notions the properties below are stated with.                           *)
(***************************************************************************)
\* a is a subsequence of b: the entries of a occur in b, in the order of a
RECURSIVE IsSubsequence(_, _)
IsSubsequence(a, b) ==
  IF a = <<>> THEN TRUE
  ELSE IF b = <<>> THEN FALSE
  ELSE IF Head(a) = Head(b) THEN IsSubsequence(Tail(a), Tail(b))
  ELSE IsSubsequence(a, Tail(b))

\* a occurs in b as a run of consecutive entries
IsInfix(a, b) ==
  \E k \in 0 .. Len(b) - Len(a) : SubSeq(b, k + 1, k + Len(a)) = a

\* the entries of s at the positions p satisfies, in order
RECURSIVE Pick(_, _, _)
Pick(s, keep(_), k) ==
  IF k > Len(s) THEN <<>>
  ELSE (IF keep(k) THEN <<s[k]>> ELSE <<>>) \o Pick(s, keep, k + 1)

\* the indices of the BEGIN_BLOCK_DATAGRID_3D lines of the file
BlockStarts == {k \in DOMAIN lines : Contains(lines[k], "BEGIN_BLOCK_DATAGRID_3D")}

\* the name of the block that starts at line k: the one token of the next
\* line, or "" when the next line is no name line
BlockName(k) ==
  IF k + 1 <= Len(lines) /\ IsNameLine(lines[k + 1]) THEN Split(lines[k + 1])[1] ELSE ""

\* the index of the END_BLOCK_DATAGRID_3D line of the block that starts at k (0: none)
BlockEndOf(k) ==
  LET ends == {e \in k + 1 .. Len(lines) :
                 /\ Contains(lines[e], "END_BLOCK_DATAGRID_3D")
                 /\ \A m \in k + 1 .. e - 1 : m \notin BlockStarts}
  IN  IF ends = {} THEN 0 ELSE CHOOSE e \in ends : \A x \in ends : e <= x

\* every block of the file is complete: it has its END_BLOCK_DATAGRID_3D line,
\* and every BEGIN_DATAGRID_3D line in it has an END_DATAGRID_3D line after
\* it in the block
BlocksComplete ==
  \A k \in BlockStarts :
    /\ BlockEndOf(k) # 0
    /\ \A m \in k + 1 .. BlockEndOf(k) - 1 :
         Contains(lines[m], "BEGIN_DATAGRID_3D") =>
           \E e \in m + 1 .. BlockEndOf(k) - 1 : Contains(lines[e], "END_DATAGRID_3D")

\* the number of points of the target grid
Total == grid_dimensions[1][1] * grid_dimensions[1][2] * grid_dimensions[1][3]

\* the values loaded from the reconciled tokens, as a flat sequence
LoadedFlat == [k \in DOMAIN datagrid_data_str |-> FloatOf(datagrid_data_str[k])]

\* the lines of the output that follow the rewritten header and the
\* structural lines of the target block, up to the end of the data rows
WrittenRows ==
  LET first == Len(Concat(emitted)) + Len(BlockPreamble) + Len(GridPreamble)
  IN  SubSeq(out, first + 1, first + Len(DataRows(scaled_data_flat)))

\* the data values of the output file, as text
WrittenData == TokensOf(WrittenRows, 1, Len(WrittenRows))

Succeeded == pc = "done" /\ outcome = "ok"

(***************************************************************************)
(* C2.  Periodic re-centring.                                              *)
(***************************************************************************)
\* the flat index of the input value that ends at the flat index of (x, y, z)
SourceIndex(x, y, z, dims) ==
  ((x - dims[1] \div 2) % dims[1])
    + ((y - dims[2] \div 2) % dims[2]) * dims[1]
    + ((z - dims[3] \div 2) % dims[3]) * dims[1] * dims[2]

C6_Reconciliation ==
  /\ [][(pc = "load" /\ pc' = "shift") =>
          LET k == Len(datagrid_data_str)
              new == datagrid_data_str'
          IN  /\ Len(new) = Total
              /\ k >= Total => new = SubSeq(datagrid_data_str, 1, Total)
              /\ k < Total =>
                   /\ SubSeq(new, 1, k) = datagrid_data_str
                   /\ \A p \in k + 1 .. Total : FloatOf(new[p]) = <<0, 1>>
              /\ Flatten(data_3d', grid_dimensions[1])
                   = [p \in 1 .. Total |-> FloatOf(new[p])]]_vars
  /\ [](pc \in {"open", "header", "footer"} \/ Succeeded =>
          Len(scaled_data_flat) = Total)
  /\ [](Succeeded => Len(WrittenData) = Total)

\* a 2 x 2 x 2 grid that was given 6 values holds them and two zeros
C6_Witness ==
  /\ pc = "shift"
  /\ grid_dimensions = Some(<<2, 2, 2>>)
  /\ datagrid_data_str = <<"1", "-2", "3", "-4", "5", "-6", "0.0", "0.0">>

\* a 2 x 2 x 2 grid that was given 10 values holds the first 8
C6_WitnessExcess ==
  /\ Succeeded
  /\ grid_dimensions = Some(<<2, 2, 2>>)
  /\ \E k \in DOMAIN lines : Split(lines[k]) = <<"9", "-10">>
  /\ datagrid_data_str = <<"1", "-2", "3", "-4", "5", "-6", "7", "-8">>


(***************************************************************************)
(* C1.  Round trip of the lines outside the target block.                  *)
(***************************************************************************)
\* the line at index k of the file lies in front of the target block or
\* behind its END_BLOCK_DATAGRID_3D line: in the header, in the footer or in
\* a block that is not the target
OutsideTarget(k) ==
  \/ target_begin = 0
  \/ k < target_begin
  \/ target_end # 0 /\ k > target_end

\* the line at index k is the line after a PRIMCOORD line, or one of the N
\* lines after the count line "N ..." of a PRIMCOORD line
IsPrimcoordBody(k) ==
  \E p \in 1 .. k - 1 :
    /\ Contains(lines[p], "PRIMCOORD")
    /\ \/ k = p + 1
       \/ /\ p + 1 <= Len(lines)
          /\ Split(lines[p + 1]) # <<>>
          /\ IsInt(Split(lines[p + 1])[1])
          /\ k <= p + 1 + IntOf(Split(lines[p + 1])[1])

\* the lines of the file that the round trip is about, in the order of the file
PassThroughLines ==
  Pick(lines, LAMBDA k : OutsideTarget(k) /\ ~IsPrimcoordBody(k), 1)

\* C1, for a file whose blocks are all complete: when process_xsf has written
\* an output, every line of the header, of the footer and of the blocks that
\* are not the target (the PRIMCOORD count line and atom lines aside) is in
\* the output unchanged, and these lines are in the output in the order they
\* have in the input.
C1_RoundTrip ==
  (Succeeded /\ BlocksComplete) => IsSubsequence(PassThroughLines, out)


(***************************************************************************)
(* C3.  No output on a fatal failure.                                      *)
(***************************************************************************)
\* how a call ends on the fatal failures: input file not found, target
\* block not found, dimension parse failure, missing END_DATAGRID_3D or
\* structural lines in the target block, non-numeric data token, failure to
\* open or to write the output
FatalOutcomes ==
  {"input_not_found", "target_not_found", "no_dimensions", "ValueError",
   "missing_grid_info", "missing_end", "data_error", "io_error", "write_exception"}

\* C3: on every fatal failure process_xsf ends without having written a
\* partial output file, and the output file is opened and written only after
\* the whole parse and data conversion has succeeded.
C3_NoPartialOutput ==
  /\ (pc = "done" /\ outcome \in FatalOutcomes) => out = <<>>
  /\ opened => /\ found_target_grid /\ grid_dimensions # None
               /\ Len(grid_dimensions[1]) = 3
               /\ Len(scaled_data_flat) = Total

(***************************************************************************)
(* C4.  Selection of the target block.                                     *)
(***************************************************************************)
\* the blocks the request asks for: every block when no name is requested
Candidates ==
  {k \in BlockStarts : datagrid_name = None \/ BlockName(k) = datagrid_name[1]}

\* the scan has read the whole file
ScanCompleted ==
  /\ pc \notin {"read", "scan"}
  /\ outcome \notin {"input_not_found", "missing_grid_info", "ValueError", "missing_end"}

\* C4: over a whole scan exactly one block is selected as target: the first
\* block of the file when no name is requested, otherwise the first block
\* whose name is the requested one, and no block when there is none.  For a
\* file with the blocks density and potential and the request potential, the
\* data is the second block's and the lines of the first block are in the
\* header partition unchanged.
C4_TargetSelection ==
  ScanCompleted =>
    /\ found_target_grid = (Candidates # {})
    /\ Candidates # {} => target_begin = CHOOSE k \in Candidates : \A x \in Candidates : k <= x
    /\ (/\ Cardinality(BlockStarts) = 2
        /\ datagrid_name = Some("potential")
        /\ \E a, b \in BlockStarts :
             a < b /\ BlockName(a) = "density" /\ BlockName(b) = "potential"
                   /\ BlockEndOf(a) # 0)
         => LET a == CHOOSE k \in BlockStarts : \A x \in BlockStarts : k <= x
                b == CHOOSE k \in BlockStarts : \A x \in BlockStarts : k >= x
            IN  /\ target_begin = b
                /\ IsInfix(SubSeq(lines, a, BlockEndOf(a)), header_lines)
                /\ pc \in {"shift", "open", "header", "footer"} \/ Succeeded =>
                     \A k \in DOMAIN datagrid_data_str :
                       \E m \in b + 1 .. Len(lines) :
                         \E t \in DOMAIN lines[m] : lines[m][t] = datagrid_data_str[k]


(***************************************************************************)
(* C5.  A target section without END_DATAGRID_3D.                          *)
(***************************************************************************)
\* a BEGIN_DATAGRID_3D line of the target block has been read and no line
\* after it contains END_DATAGRID_3D
TargetSectionUnterminated ==
  /\ section_at # 0
  /\ \A k \in section_at + 1 .. Len(lines) : ~Contains(lines[k], "END_DATAGRID_3D")

\* the dimension line of the section read last is there and is not all integers
DimensionLineUnparsable ==
  /\ EnoughLines(section_at, Len(lines))
  /\ \E k \in DOMAIN Split(lines[section_at + 1]) : ~IsInt(Split(lines[section_at + 1])[k])

MarkerLines(m) == {k \in DOMAIN header_lines : Contains(header_lines[k], m)}

\* C7: for every header line containing PRIMVEC that is followed by at least
\* 3 header lines, the first such line and every later one, the output has
\* that line, the next 3 lines unchanged, a line CONVVEC and the same 3 lines
\* again.
C7_PrimvecDuplication ==
  Succeeded =>
    \A k \in MarkerLines("PRIMVEC") :
      k + 3 <= Len(header_lines) =>
        Concat(SubSeq(emitted, k, k + 3))
          = SubSeq(header_lines, k, k + 3) \o << <<"CONVVEC">> >>
              \o SubSeq(header_lines, k + 1, k + 3)

\* a PRIMCOORD line that is not one of the 3 lines after a PRIMVEC line
PrimcoordLines ==
  {k \in MarkerLines("PRIMCOORD") :
     \A p \in MarkerLines("PRIMVEC") : k < p \/ k > p + 3}

\* the atom count a count line gives: Some(N), or None when its first token
\* is no integer
CountOf(line) ==
  IF Split(line) # <<>> /\ IsInt(Split(line)[1]) THEN Some(IntOf(Split(line)[1]))
  ELSE None

\* the indices of the atom lines of the PRIMCOORD line at k: the N header
\* lines after its count line
AtomLinesOf(k) ==
  IF k + 1 > Len(header_lines) \/ CountOf(header_lines[k + 1]) = None THEN {}
  ELSE {a \in k + 2 .. k + 1 + CountOf(header_lines[k + 1])[1] : a <= Len(header_lines)}

\* C8: every header line containing PRIMCOORD, not only the first, is
\* written unchanged; the line after it, the count line "N flag", is written
\* with the flag "1" set to "0", and unchanged when the flag is not "1" (or
\* N is no integer);
\* the N lines after the count line are written as the atom line rewrite
\* writes them.
C8_EveryPrimcoord ==
  Succeeded =>
    \A k \in PrimcoordLines :
      /\ emitted[k] = <<header_lines[k]>>
      /\ k + 1 <= Len(header_lines) =>
           LET parts == Split(header_lines[k + 1])
           IN  IF CountOf(header_lines[k + 1]) # None /\ Len(parts) > 1 /\ parts[2] = "1"
                 THEN /\ Len(emitted[k + 1]) = 1
                      /\ Split(emitted[k + 1][1]) = <<parts[1], "0">>
                 ELSE emitted[k + 1] = <<header_lines[k + 1]>>
      /\ \A a \in AtomLinesOf(k) : emitted[a] = <<AtomLineRewrite(header_lines[a])>>

\* C9: each of the N lines after a valid count line that has at least 4
\* tokens with numeric tokens 1-3 is written as the type field and x, y, z
\* only, the type being the element symbol for an integer in 1..118 and
\* token 0 otherwise; a line with fewer tokens or a non-numeric coordinate is
\* written unchanged.
C9_ForceStripping ==
  Succeeded =>
    \A k \in PrimcoordLines : \A a \in AtomLinesOf(k) :
      LET parts == Split(header_lines[a])
      IN  /\ Len(emitted[a]) = 1
          /\ IF Len(parts) >= 4 /\ \A c \in 2 .. 4 : IsFloat(parts[c])
               THEN Split(emitted[a][1]) =
                      <<(IF IsInt(parts[1]) /\ IntOf(parts[1]) \in 1 .. 118
                           THEN ELEMENTS[IntOf(parts[1])] ELSE parts[1]),
                        FormatF9(FloatOf(parts[2])), FormatF9(FloatOf(parts[3])),
                        FormatF9(FloatOf(parts[4]))>>
               ELSE emitted[a][1] = header_lines[a]

(***************************************************************************)
(* C10.  The order of the output.                                          *)
(***************************************************************************)
\* C10: a successful run writes, in this order and with nothing in between,
\* the rewritten header lines, the target's BEGIN_BLOCK_DATAGRID_3D line, the
\* target grid name, the six lines BEGIN_DATAGRID_3D, dimension, origin and 3
\* vectors, the data rows, exactly one END_DATAGRID_3D line, the
\* END_BLOCK_DATAGRID_3D line when one was captured, and the footer lines.
C10_WriterOrdering ==
  Succeeded =>
    LET rows == DataRows(scaled_data_flat)
        at == section_at
        grid == <<lines[at]>> \o SubSeq(lines, at + 1, at + 5)
    IN  /\ \E ending \in {<<lines[k]>> : k \in {e \in DOMAIN lines :
                                                   Contains(lines[e], "END_DATAGRID_3D")}}
                          \cup {<< <<"END_DATAGRID_3D">> >>} :
             out = Concat(emitted) \o <<lines[target_begin], <<target_grid_name[1]>> >>
                     \o grid \o rows \o ending
                     \o (IF target_end # 0 THEN <<lines[target_end]>> ELSE <<>>)
                     \o footer_lines
        /\ Len(Split(grid[2])) = 3
        /\ \A c \in 1 .. 3 : IsInt(Split(grid[2])[c])
        /\ grid_dimensions[1] = [c \in 1 .. 3 |-> IntOf(Split(grid[2])[c])]


(***************************************************************************)
(* C11.  The output is parseable by the same reader.                       *)
(***************************************************************************)
\* how the scanner ends a call with a fatal error
ScanFailures ==
  {"input_not_found", "target_not_found", "no_dimensions", "missing_grid_info",
   "ValueError", "missing_end"}

\* C11: for every input on which process_xsf writes an output, the scanner
\* run on that output with the same requested grid name ends with no fatal
\* error, selects a target block with the grid dimensions of the call that
\* wrote it and reads exactly Nx*Ny*Nz data tokens from it.
C11_OutputParseable ==
  written_dimensions # None =>
    /\ outcome \notin ScanFailures
    /\ pc \in {"read", "scan", "load"}
    /\ pc = "load" =>
         /\ found_target_grid /\ target_begin # 0
         /\ grid_dimensions = written_dimensions
         /\ Len(datagrid_data_str) = Total

\* the scan of the output of a call on a 3 x 2 x 3 grid has ended
C11_Witness ==
  /\ written_dimensions = Some(<<3, 2, 3>>) /\ pc = "load"
  /\ Len(datagrid_data_str) = 18 /\ grid_dimensions = Some(<<3, 2, 3>>)


(***************************************************************************)
(* C12.  A block that is not the target and has no END_DATAGRID_3D.        *)
(***************************************************************************)
\* the BEGIN_DATAGRID_3D lines of blocks behind the target block that no
\* END_DATAGRID_3D line follows before the end of the file
OpenInertSections ==
  {m \in DOMAIN lines :
     /\ target_end # 0 /\ m > target_end
     /\ Contains(lines[m], "BEGIN_DATAGRID_3D")
     /\ ~Contains(lines[m], "BEGIN_BLOCK_DATAGRID_3D")
     /\ \E k \in BlockStarts : target_end < k /\ k < m
     /\ \A e \in m + 1 .. Len(lines) : ~Contains(lines[e], "END_DATAGRID_3D")}

\* C12: a block that is not the target and has no END_DATAGRID_3D before the
\* end of the file is no fatal error, and the lines of its partial body are
\* in the header or footer partition, and so in the output, when the run
\* otherwise succeeds.
C12_OpenInertBlockKept ==
  Succeeded =>
    \A m \in OpenInertSections :
      /\ \/ IsInfix(SubSeq(lines, m, Len(lines)), footer_lines)
         \/ IsInfix(SubSeq(lines, m, Len(lines)), header_lines)
      /\ IsInfix(SubSeq(lines, m, Len(lines)), out)


C13_WitnessZero ==
  /\ pc = "open" /\ MaxAbs(shifted_data_3d) = <<0, 1>> /\ scale_factor = Some(<<10, 1>>)

(***************************************************************************)
(* C14. The number of command-line arguments.                              *)
(***************************************************************************)
\* C14: once the script has read sys.argv, a length outside {1, 3, 4, 5} has
\* made it print the usage line and exit with a non-zero status without
\* calling process_xsf, and a length of exactly 1 has made it print the
\* usage line and call process_xsf with the built-in defaults.
C14_ArgumentCount ==
  (argv # <<>> /\ pc # "main") =>
    /\ Len(argv) \notin {1, 3, 4, 5} =>
         /\ usage_printed
         /\ exit_status # None /\ exit_status # Some(0)
         /\ pc = "exit"
    /\ Len(argv) = 1 =>
         /\ usage_printed /\ exit_status = None
         /\ pc = "read"
         /\ input_file = FileAt(default_input_file)
         /\ datagrid_name = None /\ scale_factor = None

(***************************************************************************)
(* C15. Every input line is owned by one partition.                        *)
(***************************************************************************)
\* the last line of the target block: its END_BLOCK_DATAGRID_3D line, or the
\* line before the next block, or the last line of the file
TargetLast ==
  IF BlockEndOf(target_begin) # 0 THEN BlockEndOf(target_begin)
  ELSE IF \E b \in BlockStarts : b > target_begin
    THEN (CHOOSE b \in BlockStarts :
            b > target_begin /\ \A x \in BlockStarts : x > target_begin => b <= x) - 1
    ELSE Len(lines)

\* the indices of the target's data lines: the lines of the target block
\* between the five structural lines after a BEGIN_DATAGRID_3D line and the
\* next END_DATAGRID_3D line
TargetDataLines ==
  {k \in target_begin + 1 .. TargetLast :
     \E b \in target_begin + 1 .. k - 6 :
       /\ Contains(lines[b], "BEGIN_DATAGRID_3D")
       /\ \A m \in b + 1 .. k : ~Contains(lines[m], "END_DATAGRID_3D")}

\* the lines the scan has recorded, partition after partition; the name
\* line is the partition target_grid_name when the target block has one
RecordedLines ==
  header_lines
    \o (IF datagrid_block_start = None THEN <<>> ELSE <<datagrid_block_start[1]>>)
    \o (IF target_begin # 0 /\ BlockName(target_begin) # ""
          THEN <<lines[target_begin + 1]>> ELSE <<>>)
    \o datagrid_header
    \o (IF datagrid_block_end = None THEN <<>> ELSE <<datagrid_block_end[1]>>)
    \o footer_lines

\* C15: after a successful scan every input line is in exactly one
\* partition: each line text occurs in the file as often as it occurs in the
\* recorded partitions and among the target's data lines together, so that
\* no line is lost and none is recorded twice.  Lines are compared without
\* their surrounding whitespace.
C15_PartitionOwnership ==
  pc = "load" =>
    \A t \in {Strip(lines[k]) : k \in DOMAIN lines} :
      Cardinality({k \in DOMAIN lines : Strip(lines[k]) = t})
        = Cardinality({k \in DOMAIN RecordedLines : Strip(RecordedLines[k]) = t})
            + Cardinality({k \in TargetDataLines : Strip(lines[k]) = t})

(***************************************************************************)
(* C16. The structural lines of the target grid.                           *)
(***************************************************************************)
\* C16: after a successful scan datagrid_header holds exactly 7 lines: a
\* BEGIN_DATAGRID_3D line of the target block and the five lines after it
\* (dimension line, origin line, three vector lines), as they are in the
\* file, then an END_DATAGRID_3D line; grid_dimensions holds the integers of
\* that dimension line.  This also holds for a target block with more than
\* one BEGIN_DATAGRID_3D section.
C16_HeaderSevenLines ==
  pc = "load" =>
    /\ Len(datagrid_header) = 7
    /\ \E b \in target_begin + 1 .. Len(lines) - 5 :
         /\ Contains(lines[b], "BEGIN_DATAGRID_3D")
         /\ SubSeq(datagrid_header, 1, 6) = SubSeq(lines, b, b + 5)
    /\ Contains(datagrid_header[7], "END_DATAGRID_3D")
    /\ grid_dimensions
         = Some([k \in DOMAIN Split(datagrid_header[2]) |->
                   IntOf(Split(datagrid_header[2])[k])])

(***************************************************************************)
(* C17. The sub-states of the header rewriter.                             *)
(***************************************************************************)
\* C17: at every step of the pass over header_lines at most one of
\* in_primvec (inside PRIMVEC) and in_primcoord (inside PRIMCOORD) is set.
C17_ExclusiveSubStates == ~(in_primvec /\ in_primcoord)

(***************************************************************************)
(* C18. The routing of lines to the header and the footer.                 *)
(***************************************************************************)
\* C18: after a successful scan header_lines is the sequence of the input
\* lines in front of the target block's BEGIN_BLOCK_DATAGRID_3D line, and
\* footer_lines is the sequence of the input lines behind the target
\* block's END_BLOCK_DATAGRID_3D line when the block has one, each in input
\* order and unmodified.
C18_HeaderFooterRouting ==
  pc = "load" =>
    /\ header_lines = SubSeq(lines, 1, target_begin - 1)
    /\ target_end # 0 => footer_lines = SubSeq(lines, target_end + 1, Len(lines))

(***************************************************************************)
(* C19. Numeric validation follows the reconciliation.                     *)
(***************************************************************************)
\* C19: for a target grid of three positive dimensions and k data tokens,
\* the data loading step ends the run with the data-format error if and
\* only if one of the first min(k, Nx*Ny*Nz) tokens is not numeric; a token
\* that is not numeric among the tokens behind the first Nx*Ny*Nz does not
\* end the run, and the tokens added when k < Nx*Ny*Nz are "0.0".
C19_ValidationAfterReconciliation ==
  [][(pc = "load" /\ Len(grid_dimensions[1]) = 3 /\ pc' # "load") =>
       LET k == Len(datagrid_data_str)
           kept == 1 .. (IF k < Total THEN k ELSE Total)
       IN  /\ outcome' = "data_error"
                <=> \E p \in kept : ~IsFloat(datagrid_data_str[p])
           /\ outcome' # "data_error" =>
                /\ pc' = "shift" /\ outcome' = ""
                /\ \A p \in kept : datagrid_data_str'[p] = datagrid_data_str[p]
           /\ \A p \in k + 1 .. Total : datagrid_data_str'[p] = "0.0"]_vars

\* a grid whose last token, behind the Nx*Ny*Nz tokens, is not numeric has
\* been loaded
C19_Witness ==
  /\ pc = "shift"
  /\ grid_dimensions = Some(<<2, 1, 2>>)
  /\ Len(datagrid_data_str) = 4
  /\ \E k \in DOMAIN lines : "x" \in {lines[k][p] : p \in DOMAIN lines[k]}

\* a grid whose first token is not numeric has ended the run
C19_WitnessFailure ==
  /\ outcome = "data_error"
  /\ datagrid_data_str # <<>> /\ datagrid_data_str[1] = "x"

\* a grid that was given too few tokens has been padded and loaded
C19_WitnessPadded ==
  /\ pc = "shift"
  /\ grid_dimensions = Some(<<2, 1, 2>>)
  /\ datagrid_data_str = <<"1", "-2", "0.0", "0.0">>

(***************************************************************************)
(* C20. Too few lines behind BEGIN_DATAGRID_3D.                            *)
(***************************************************************************)
\* C20: once the scan has read a BEGIN_DATAGRID_3D line of the target block,
\* the run has ended with the error "missing grid dimension/vector info" if
\* and only if fewer than 5 lines follow that line in the file; with 5 lines
\* or more behind it the scan reads the five structural lines.
C20_StructuralLineBound ==
  section_at # 0 =>
    /\ outcome = "missing_grid_info" <=> Len(lines) - section_at < 5
    /\ Len(lines) - section_at >= 5 =>
         /\ Len(datagrid_header) >= 2
         /\ outcome # "ValueError" =>
              IsInfix(SubSeq(lines, section_at, section_at + 5), datagrid_header)

\* exactly 5 lines follow the BEGIN_DATAGRID_3D line of the target, and the
\* scan has read them
C20_Witness ==
  /\ section_at # 0 /\ Len(lines) - section_at = 5
  /\ grid_dimensions = Some(<<2, 1, 1>>)
  /\ outcome # "missing_grid_info"

\* only 4 lines follow the BEGIN_DATAGRID_3D line of the target, and the run
\* has ended
C20_WitnessTooFew ==
  /\ section_at # 0 /\ Len(lines) - section_at = 4
  /\ pc = "done" /\ outcome = "missing_grid_info"

(***************************************************************************)
(* C21. A count line that cannot be parsed.                                *)
(***************************************************************************)
\* the index of the first PRIMVEC or PRIMCOORD line behind the header line
\* k, or the index behind the last header line
NextMarker(k) ==
  LET later == {m \in (MarkerLines("PRIMVEC") \cup MarkerLines("PRIMCOORD")) : m > k}
  IN  IF later = {} THEN Len(header_lines) + 1
      ELSE CHOOSE m \in later : \A x \in later : m <= x

\* C21: when the first token of the line after a PRIMCOORD line is no
\* integer, that line is written unchanged, and every header line after it
\* up to the next PRIMVEC or PRIMCOORD line is written unchanged too: none
\* of them is rewritten as an atom line.
C21_UnparsableCountLine ==
  \A k \in PrimcoordLines :
    (/\ k + 1 <= Len(header_lines)
     /\ Split(header_lines[k + 1]) # <<>>
     /\ CountOf(header_lines[k + 1]) = None) =>
      \A a \in k + 1 .. NextMarker(k + 1) - 1 :
        a <= Len(emitted) => emitted[a] = <<header_lines[a]>>

(***************************************************************************)
(* C22. The shift applied twice.                                           *)
(***************************************************************************)
\* the grid obtained by shifting the shifted grid once more by the same
\* amounts
ShiftedTwice ==
  Roll(shifted_data_3d, ShiftOf(grid_dimensions[1]), grid_dimensions[1])

\* the shift along an axis of n cells that two shifts by n div 2 amount to
DoubleShift(n) == IF n % 2 = 0 THEN 0 ELSE n - 1

\* C22: once the grid has been shifted, shifting it again by (N div 2) per
\* axis gives the loaded grid moved by 0 along every axis with even N and by
\* N - 1 along every axis with odd N; so on a grid whose three dimensions
\* are even it gives the loaded grid itself, and along an odd axis of more
\* than one cell it is one cell off.
C22_ShiftTwice ==
  (pc \in {"open", "header", "footer"} \/ Succeeded) =>
    LET dims == grid_dimensions[1]
    IN  /\ \A c \in Cells(dims) :
             ShiftedTwice[<<(c[1] + DoubleShift(dims[1])) % dims[1],
                            (c[2] + DoubleShift(dims[2])) % dims[2],
                            (c[3] + DoubleShift(dims[3])) % dims[3]>>] = data_3d[c]
        /\ (\A a \in 1 .. 3 : dims[a] % 2 = 0) => ShiftedTwice = data_3d
        /\ \A c \in Cells(dims) :
             ShiftedTwice[c] = data_3d[<<(c[1] + (dims[1] % 2)) % dims[1],
                                         (c[2] + (dims[2] % 2)) % dims[2],
                                         (c[3] + (dims[3] % 2)) % dims[3]>>]

\* a grid with two odd axes of 3 cells has been shifted; shifted twice it is
\* not the loaded grid
C22_Witness ==
  /\ pc = "open"
  /\ grid_dimensions = Some(<<3, 2, 3>>)
  /\ data_3d[<<0, 0, 0>>] # data_3d[<<1, 0, 0>>]
  /\ ShiftedTwice # data_3d

\* a grid of even dimensions has been shifted, and has changed
C22_WitnessEven ==
  /\ pc = "open"
  /\ grid_dimensions = Some(<<2, 2, 2>>)
  /\ shifted_data_3d # data_3d
  /\ ShiftedTwice = data_3d

(***************************************************************************)
(* C23. The scanner terminates.                                            *)
(***************************************************************************)
\* C23: every pass of the scan loop, whatever branch it takes, moves the
\* cursor i forward, to a position not behind the one after the last line,
\* or ends the call; at the position after the last line the loop is left.
\* The cursor never moves backwards.  The distance of i to the end of
\* the file thus decreases with every pass, and the loop makes at most
\* Len(lines) passes.
C23_ScannerTerminates ==
  /\ [][(pc = "scan" /\ i <= Len(lines)) =>
          \/ pc' = "scan" /\ i' > i /\ i' <= Len(lines) + 1 /\ lines' = lines
          \/ pc' = "done" /\ outcome' # "ok" /\ i' >= i]_vars
  /\ [][(pc = "scan" /\ i > Len(lines)) => pc' # "scan"]_vars
  /\ [][i' >= i]_vars
  /\ [](pc = "scan" => i \in 1 .. Len(lines) + 1)

\* the scan of a file with two blocks and lines in front of, between and
\* behind them has reached the end of the file
C23_Witness ==
  /\ pc = "load" /\ i = Len(lines) + 1
  /\ Cardinality(BlockStarts) = 2
  /\ header_lines # <<>> /\ footer_lines # <<>>
  /\ target_end # 0

====
